---- MODULE Spec2Model ----
(***************************************************************************)
(* The session server of GameServer.js behind the transport of            *)
(* ws-server.js: rooms keyed by game code, the connection-to-room map,    *)
(* the handlers of the inbound actions, the role assignment and the       *)
(* messages each handler sends.  One step of Next is one transport event  *)
(* (open, message, close) run to completion.                              *)
(***************************************************************************)
EXTENDS Integers, Sequences, FiniteSets, TLC

\* ------------------------------------------------------------------ bounds

\* connections the transport opens in the world of Spec
MaxConn == 2
\* connections the transport opens in the world of SpecPlay
MaxPlayConn == 5
\* players of the rooms assignRoles is applied to in SpecRoles
MaxRolePlayers == 6
\* Math.random takes the values k / RandomGrain in the shuffle of a started game
RandomGrain == 2
\* generateGameCode draws its four characters among MaxCodeDraw + 1 outcomes
MaxCodeDraw == 1
\* rooms ever created by createGame
MaxCreated == 2
\* generatePlayerToken draws its token among MaxTokenDraw + 1 values
MaxTokenDraw == 0

\* ------------------------------------------------------- program constants

\* the length of a game code
CodeLength == 4
\* the fewest players startGame accepts
MinPlayers == 5
\* the divisor of the Syndicate share in assignRoles
SyndicateDivisor == 3

\* ------------------------------------------------------------------ strings

\* A string is a sequence of one-character strings.
characters ==
  << "A", "B", "C", "D", "E", "F", "G", "H", "J", "K", "L", "M", "N", "P", "Q", "R",
     "S", "T", "U", "V", "W", "X", "Y", "Z", "2", "3", "4", "5", "6", "7", "8", "9" >>

UpperLetters ==
  << "A", "B", "C", "D", "E", "F", "G", "H", "I", "J", "K", "L", "M",
     "N", "O", "P", "Q", "R", "S", "T", "U", "V", "W", "X", "Y", "Z" >>

LowerLetters ==
  << "a", "b", "c", "d", "e", "f", "g", "h", "i", "j", "k", "l", "m",
     "n", "o", "p", "q", "r", "s", "t", "u", "v", "w", "x", "y", "z" >>

WhiteSpace == { " ", "\t", "\n" }

\* a field the inbound JSON object does not carry
Undefined == << "undefined" >>

EmptyString == << >>

\* x ?? ''
OrEmpty(x) == IF x = Undefined THEN EmptyString ELSE x

\* the lower-case letter of every upper-case letter, and the converse
LowerTable ==
  [u \in { UpperLetters[i] : i \in 1..Len(UpperLetters) } |->
     LowerLetters[CHOOSE i \in 1..Len(UpperLetters) : UpperLetters[i] = u]]

UpperTable ==
  [l \in { LowerLetters[i] : i \in 1..Len(LowerLetters) } |->
     UpperLetters[CHOOSE i \in 1..Len(LowerLetters) : LowerLetters[i] = l]]

LowerChar(ch) == IF ch \in DOMAIN LowerTable THEN LowerTable[ch] ELSE ch

UpperChar(ch) == IF ch \in DOMAIN UpperTable THEN UpperTable[ch] ELSE ch

toLowerCase(s) == [i \in 1..Len(s) |-> LowerChar(s[i])]

toUpperCase(s) == [i \in 1..Len(s) |-> UpperChar(s[i])]

RECURSIVE trimStart(_)
trimStart(s) ==
  IF s # << >> /\ Head(s) \in WhiteSpace THEN trimStart(Tail(s)) ELSE s

RECURSIVE trimEnd(_)
trimEnd(s) ==
  IF s # << >> /\ s[Len(s)] \in WhiteSpace
    THEN trimEnd(SubSeq(s, 1, Len(s) - 1))
    ELSE s

\* the name taken as it was typed
trimNothing(s) == s

trim(s) == trimEnd(trimStart(s))

\* ------------------------------------------------------------ insertion-ordered maps

\* A JavaScript Map keyed by connection identifier is the sequence of its
\* entries in insertion order; every entry carries its key in the field id.
MapHas(m, k) == \E i \in 1..Len(m) : m[i].id = k

MapGet(m, k) == m[CHOOSE i \in 1..Len(m) : m[i].id = k]

MapSet(m, e) ==
  IF MapHas(m, e.id)
    THEN [i \in 1..Len(m) |-> IF m[i].id = e.id THEN e ELSE m[i]]
    ELSE Append(m, e)

MapDelete(m, k) == SelectSeq(m, LAMBDA e : e.id # k)

MapKeys(m) == { m[i].id : i \in 1..Len(m) }

\* ------------------------------------------------------------------ state

VARIABLES
  connectionIdCounter,  \* ws-server.js: the identifier the next open receives
  wsToConnectionId,     \* ws-server.js: the identifiers of the open sockets
  games,                \* GameServer.games: game code -> room
  playerConnections,    \* GameServer.playerConnections: connection -> game code
  playerTokens,         \* GameServer.playerTokens: token -> game code and connection
  created,              \* rooms created so far (bounds the model)
  event,                \* the transport event handled by the last step
  outbox                \* the send calls of the last step, in order

vars == << connectionIdCounter, wsToConnectionId, games, playerConnections,
           playerTokens, created, event, outbox >>

\* ------------------------------------------------------------------ messages

\* One send call: the socket it is made on, the message, and whether the
\* socket is open (a send on a closed socket delivers nothing).
SendTo(c, m) == [to |-> c, msg |-> m, ok |-> c \in wsToConnectionId]

ErrorMsg(text) == [action |-> "error", message |-> text]

getPlayerListOf(game) ==
  [i \in 1..Len(game.players) |->
     [id |-> game.players[i].id,
      name |-> game.players[i].name,
      connected |-> game.players[i].connected,
      alive |-> TRUE,
      isHost |-> game.players[i].isHost]]

getPlayerList(gs, gameCode) ==
  IF gameCode \notin DOMAIN gs THEN << >> ELSE getPlayerListOf(gs[gameCode])

\* a broadcast without the try/catch of lines 53-57: it ends at the first
\* send that fails
broadcastUncaught(gs, gameCode, m) ==
  IF gameCode \notin DOMAIN gs
    THEN << >>
    ELSE LET ps == SelectSeq(gs[gameCode].players, LAMBDA p : p.connected)
             sends == [i \in 1..Len(ps) |-> SendTo(ps[i].id, m)]
             failed == { i \in 1..Len(ps) : ~sends[i].ok }
         IN  IF failed = {} THEN sends
             ELSE SubSeq(sends, 1, CHOOSE i \in failed : \A k \in failed : i <= k)

\* a broadcast that ends after its first send
broadcastToFirst(gs, gameCode, m) ==
  IF gameCode \notin DOMAIN gs
    THEN << >>
    ELSE LET ps == SelectSeq(gs[gameCode].players, LAMBDA p : p.connected)
         IN  [i \in 1..(IF Len(ps) > 0 THEN 1 ELSE 0) |-> SendTo(ps[i].id, m)]

\* broadcastToGame: one send per player whose connected flag is not false,
\* in the order of the players map; a send that throws is caught.
broadcastToGame(gs, gameCode, m) ==
  IF gameCode \notin DOMAIN gs
    THEN << >>
    ELSE LET ps == SelectSeq(gs[gameCode].players, LAMBDA p : p.connected)
         IN  [i \in 1..Len(ps) |-> SendTo(ps[i].id, m)]

\* ------------------------------------------------------------------ inputs

\* what the client behind connection c types as its player name
PlayerNames ==
  << { << " ", "A", "l" >> }, { << "B", "o", " " >> }, { << "C", "y" >> },
     { << "D", "i" >> }, { << "E", "d" >> }, { << "F", "l", "o" >> },
     { << "G", "u", "s" >> }, { << "H", "a", "l" >> } >>

\* the same, with two clients that go by two names each; a name of the second
\* equals a name of the first ignoring case and the surrounding white space
ClashingNames ==
  [PlayerNames EXCEPT ![1] = { << " ", "A", "l" >>, << "A", "n", "n" >> },
                      ![2] = { << "a", "L", " " >>, << "B", "o", " " >> }]

\* the names a connection sends: its client's names, a blank one, an empty
\* one, none
NameInputs(names) == names \cup { << " ", " " >>, EmptyString, Undefined }

\* the outcomes of the four Math.random draws of generateGameCode, as the
\* indexes into characters they select
CodeDraws == { << 0, 0, 0, d >> : d \in 0..MaxCodeDraw }

CodeOf(draw) == [i \in 1..CodeLength |-> characters[draw[i] + 1]]

\* what a client types as a game code: a code that generateGameCode can
\* return, in lower case and padded, or none
CodeInputs ==
  { toLowerCase(CodeOf(d)) \o << " " >> : d \in CodeDraws } \cup { Undefined }

SettingInputs == { [eyeWitness |-> TRUE, bodyGuard |-> FALSE] }

NoData == [none |-> TRUE]

\* the event a step handles: the action of the message (or open, close), the
\* connection, the fields of the message, and whether the handler ended by an
\* exception of a send
Event(action, connectionId, data, threw) ==
  [action |-> action, connectionId |-> connectionId, data |-> data, threw |-> threw]

NoEvent == Event("none", 0, NoData, FALSE)

\* ------------------------------------------------------------------ handlers

Init ==
  /\ connectionIdCounter = 1
  /\ wsToConnectionId = {}
  /\ games = << >>
  /\ playerConnections = << >>
  /\ playerTokens = << >>
  /\ created = 0
  /\ event = NoEvent
  /\ outbox = << >>

\* ws-server.js open
Open ==
  /\ wsToConnectionId' = wsToConnectionId \cup { connectionIdCounter }
  /\ connectionIdCounter' = connectionIdCounter + 1
  /\ event' = Event("open", connectionIdCounter, NoData, FALSE)
  /\ outbox' = << >>
  /\ UNCHANGED << games, playerConnections, playerTokens, created >>

\* generateGameCode without the test of line 21
generateGameCodeOnce == { CodeOf(d) : d \in CodeDraws }

\* the values generateGameCode can return: a draw no room uses (the loop
\* repeats until then)
generateGameCode == { CodeOf(d) : d \in CodeDraws } \ DOMAIN games

\* the values generatePlayerToken can return
generatePlayerToken == 0..MaxTokenDraw

MapPut(f, k, v) == [x \in DOMAIN f \cup { k } |-> IF x = k THEN v ELSE f[x]]

MapRemove(f, k) == [x \in DOMAIN f \ { k } |-> f[x]]

NewGame(connectionId, playerName, gameCode, playerToken, data) ==
  [code |-> gameCode,
   host |-> connectionId,
   hostToken |-> playerToken,
   players |-> << [id |-> connectionId, name |-> playerName, isHost |-> TRUE,
                   token |-> playerToken, connected |-> TRUE] >>,
   settings |-> [eyeWitness |-> data.eyeWitness, bodyGuard |-> data.bodyGuard],
   status |-> "lobby",
   roles |-> << >>,
   round |-> 0,
   readyStates |-> << >>]

createGame(connectionId, data) ==
  LET playerName == trim(OrEmpty(data.playerName)) IN
  /\ event' = Event("createGame", connectionId, data, FALSE)
  /\ IF playerName = EmptyString
       THEN /\ outbox' = << SendTo(connectionId, ErrorMsg("Player name is required")) >>
            /\ UNCHANGED << games, playerConnections, playerTokens, created >>
       ELSE /\ \E gameCode \in generateGameCode, playerToken \in generatePlayerToken :
                 /\ games' = MapPut(games, gameCode,
                                    NewGame(connectionId, playerName, gameCode,
                                            playerToken, data))
                 /\ playerConnections' = MapPut(playerConnections, connectionId, gameCode)
                 /\ playerTokens' = MapPut(playerTokens, playerToken,
                                           [gameCode |-> gameCode,
                                            connectionId |-> connectionId])
                 /\ outbox' = << SendTo(connectionId,
                                   [action |-> "gameCreated",
                                    gameCode |-> gameCode,
                                    players |-> getPlayerList(games', gameCode),
                                    isHost |-> TRUE,
                                    playerToken |-> playerToken]) >>
            /\ created' = created + 1
  /\ UNCHANGED << connectionIdCounter, wsToConnectionId >>

\* the duplicate check without toLowerCase
NameTakenExact(game, playerName) ==
  \E i \in 1..Len(game.players) : game.players[i].name = playerName

\* lines 144-151: some player's name equals playerName ignoring case
NameTaken(game, playerName) ==
  \E i \in 1..Len(game.players) :
     toLowerCase(game.players[i].name) = toLowerCase(playerName)

joinGame(connectionId, data) ==
  LET playerName == trim(OrEmpty(data.playerName))
      gameCode == trim(toUpperCase(OrEmpty(data.gameCode)))
      reject(text) == /\ outbox' = << SendTo(connectionId, ErrorMsg(text)) >>
                      /\ UNCHANGED << games, playerConnections, playerTokens >>
  IN
  /\ event' = Event("joinGame", connectionId, data, FALSE)
  /\ IF playerName = EmptyString THEN reject("Player name is required")
     ELSE IF gameCode \notin DOMAIN games THEN reject("Game not found")
     ELSE IF games[gameCode].status # "lobby" THEN reject("Game has already started")
     ELSE IF NameTaken(games[gameCode], playerName) THEN reject("That name is already taken")
     ELSE \E playerToken \in generatePlayerToken :
          LET game == games[gameCode]
              joined == [game EXCEPT !.players =
                           MapSet(@, [id |-> connectionId, name |-> playerName,
                                      isHost |-> FALSE, token |-> playerToken,
                                      connected |-> TRUE])]
          IN  /\ games' = [games EXCEPT ![gameCode] = joined]
              /\ playerConnections' = MapPut(playerConnections, connectionId, gameCode)
              /\ playerTokens' = MapPut(playerTokens, playerToken,
                                        [gameCode |-> gameCode,
                                         connectionId |-> connectionId])
              /\ outbox' =
                   << SendTo(connectionId,
                             [action |-> "gameJoined",
                              gameCode |-> gameCode,
                              players |-> getPlayerList(games', gameCode),
                              isHost |-> FALSE,
                              playerToken |-> playerToken]) >>
                   \o broadcastToGame(games', gameCode,
                                      [action |-> "playerListUpdate",
                                       players |-> getPlayerList(games', gameCode)])
  /\ UNCHANGED << connectionIdCounter, wsToConnectionId, created >>

\* the room playerConnections resolves the caller to, when that room exists
HasGame(connectionId) ==
  /\ connectionId \in DOMAIN playerConnections
  /\ playerConnections[connectionId] \in DOMAIN games

\* the room with the delete of line 458 left out
KeepPlayer(game, connectionId) == game

\* line 458: game.players.delete(connectionId)
DeletePlayer(game, connectionId) ==
  [game EXCEPT !.players = MapDelete(@, connectionId)]

leaveGame(connectionId) ==
  /\ event' = Event("leaveGame", connectionId, NoData, FALSE)
  /\ IF ~HasGame(connectionId)
       THEN /\ outbox' = << >>
            /\ UNCHANGED << games, playerConnections >>
     ELSE LET gameCode == playerConnections[connectionId]
              game == games[gameCode]
          IN  IF ~MapHas(game.players, connectionId)
                THEN /\ outbox' = << >>
                     /\ UNCHANGED << games, playerConnections >>
              ELSE IF game.host = connectionId
                THEN /\ outbox' = broadcastToGame(games, gameCode,
                                     ErrorMsg("Host left the game. Game ended."))
                     /\ games' = MapRemove(games, gameCode)
                     /\ playerConnections' = MapRemove(playerConnections, connectionId)
                ELSE /\ games' = [games EXCEPT ![gameCode] =
                                     DeletePlayer(game, connectionId)]
                     /\ outbox' = broadcastToGame(games', gameCode,
                                     [action |-> "playerListUpdate",
                                      players |-> getPlayerList(games', gameCode)])
                     /\ playerConnections' = MapRemove(playerConnections, connectionId)
  /\ UNCHANGED << connectionIdCounter, wsToConnectionId, playerTokens, created >>

\* ------------------------------------------------------------ role assignment

Swap(seq, a, b) ==
  [k \in 1..Len(seq) |-> IF k = a THEN seq[b] ELSE IF k = b THEN seq[a] ELSE seq[k]]

\* the loop of lines 282-285 from index i down to 1 (indexes from 0 as in the
\* source); js[i] is the value of Math.floor(Math.random() * (i + 1))
RECURSIVE ShuffleFrom(_, _, _)
ShuffleFrom(playerIds, js, i) ==
  IF i > 0
    THEN ShuffleFrom(Swap(playerIds, i + 1, js[i] + 1), js, i - 1)
    ELSE playerIds

Shuffle(playerIds, js) == ShuffleFrom(playerIds, js, Len(playerIds) - 1)

\* Math.floor in the place of Math.ceil
Floor(a, b) == a \div b

\* Math.ceil(a / b) for a >= 0 and b > 0
Ceil(a, b) == IF a % b = 0 THEN a \div b ELSE (a \div b) + 1

\* the loop of lines 301-316 from index i on; the three flags are
\* assignedDetective, assignedEyewitness and assignedBodyGuard
RECURSIVE InnocentRoles(_, _, _, _, _, _)
InnocentRoles(playerIds, settings, i, aDet, aEye, aBody) ==
  IF i >= Len(playerIds)
    THEN << >>
  ELSE IF ~aDet
    THEN << [id |-> playerIds[i + 1], role |-> "Detective"] >>
           \o InnocentRoles(playerIds, settings, i + 1, TRUE, aEye, aBody)
  ELSE IF settings.eyeWitness /\ ~aEye
    THEN << [id |-> playerIds[i + 1], role |-> "Eye Witness"] >>
           \o InnocentRoles(playerIds, settings, i + 1, aDet, TRUE, aBody)
  ELSE IF settings.bodyGuard /\ ~aBody
    THEN << [id |-> playerIds[i + 1], role |-> "Body Guard"] >>
           \o InnocentRoles(playerIds, settings, i + 1, aDet, aEye, TRUE)
  ELSE << [id |-> playerIds[i + 1], role |-> "Innocent Bystander"] >>
           \o InnocentRoles(playerIds, settings, i + 1, aDet, aEye, aBody)

\* the roles map of assignRoles, in insertion order, for the key order
\* playerIds of the players map and the shuffle draws js
assignRolesOf(playerIds, settings, js) ==
  LET shuffled == Shuffle(playerIds, js)
      playerCount == Len(playerIds)
      syndicateCount == Ceil(playerCount, SyndicateDivisor)
  IN  [i \in 1..syndicateCount |-> [id |-> shuffled[i], role |-> "Syndicate"]]
        \o InnocentRoles(shuffled, settings, syndicateCount, FALSE, FALSE, FALSE)

assignRoles(game, js) ==
  assignRolesOf([i \in 1..Len(game.players) |-> game.players[i].id], game.settings, js)

\* every outcome of the draws js[1..k], where js[i] is in 0..i
RECURSIVE DrawsUpTo(_)
DrawsUpTo(k) ==
  IF k <= 0
    THEN { << >> }
    ELSE { Append(js, j) : js \in DrawsUpTo(k - 1), j \in 0..k }

\* every outcome of the shuffle draws for n players
ShuffleDraws(n) == DrawsUpTo(n - 1)

\* the title of getRoleDescriptions()[role]
RoleTitle(role) == IF role = "Syndicate" THEN "Syndicate Member" ELSE role

\* ------------------------------------------------------------ start, ready, remove

\* The sends a handler makes outside broadcastToGame are not guarded: when
\* closedThrows, a send on a closed socket throws and ends the handler there.
Unguarded(sends, closedThrows) ==
  IF closedThrows /\ \E i \in 1..Len(sends) : ~sends[i].ok
    THEN SubSeq(sends, 1, CHOOSE i \in 1..Len(sends) :
                             /\ ~sends[i].ok
                             /\ \A k \in 1..(i - 1) : sends[k].ok)
    ELSE sends

Threw(sends, closedThrows) == closedThrows /\ \E i \in 1..Len(sends) : ~sends[i].ok

RoleOf(roles, id) == IF MapHas(roles, id) THEN MapGet(roles, id).role ELSE "Unknown"

\* the teammates list without the test of line 248
TeammatesForAll(game, roles, id) ==
  LET others == SelectSeq(roles, LAMBDA r : r.role = "Syndicate" /\ r.id # id)
  IN  [k \in 1..Len(others) |-> MapGet(game.players, others[k].id).name]

\* lines 246-254: the names of the other Syndicate players, in roles order
Teammates(game, roles, id) ==
  IF RoleOf(roles, id) = "Syndicate"
    THEN LET others == SelectSeq(roles, LAMBDA r : r.role = "Syndicate" /\ r.id # id)
         IN  [k \in 1..Len(others) |-> MapGet(game.players, others[k].id).name]
    ELSE << >>

RoleAssigned(game, roles, id) ==
  [action |-> "roleAssigned",
   role |-> RoleOf(roles, id),
   description |-> RoleTitle(RoleOf(roles, id)),
   teammates |-> Teammates(game, roles, id),
   playerCount |-> Len(game.players),
   readyCount |-> 0,
   totalPlayers |-> Len(game.players)]

\* the checks without the one of lines 197-204
StartChecksAnyCaller(game, connectionId) ==
  IF game.status # "lobby" THEN "Game is not in lobby state"
  ELSE IF Len(game.players) < MinPlayers THEN "Need at least 5 players to start"
  ELSE "ok"

\* the checks without the one of lines 206-213
StartChecksAnyStatus(game, connectionId) ==
  IF game.host # connectionId THEN "Only the host can start the game"
  ELSE IF Len(game.players) < MinPlayers THEN "Need at least 5 players to start"
  ELSE "ok"

\* the checks without the one of lines 215-223
StartChecksAnyCount(game, connectionId) ==
  IF game.host # connectionId THEN "Only the host can start the game"
  ELSE IF game.status # "lobby" THEN "Game is not in lobby state"
  ELSE "ok"

\* lines 197-223: the error startGame answers, or "ok"
StartChecks(game, connectionId) ==
  IF game.host # connectionId THEN "Only the host can start the game"
  ELSE IF game.status # "lobby" THEN "Game is not in lobby state"
  ELSE IF Len(game.players) < MinPlayers THEN "Need at least 5 players to start"
  ELSE "ok"

startGame(connectionId, js, closedThrows) ==
  /\ IF ~HasGame(connectionId)
       THEN /\ outbox' = << >>
            /\ event' = Event("startGame", connectionId, NoData, FALSE)
            /\ UNCHANGED games
     ELSE LET gameCode == playerConnections[connectionId]
              game == games[gameCode]
          IN  IF StartChecks(game, connectionId) # "ok"
                THEN /\ outbox' = << SendTo(connectionId,
                                       ErrorMsg(StartChecks(game, connectionId))) >>
                     /\ event' = Event("startGame", connectionId, NoData, FALSE)
                     /\ UNCHANGED games
                ELSE LET roles == assignRoles(game, js)
                         sends == [i \in 1..Len(game.players) |->
                                     SendTo(game.players[i].id,
                                            RoleAssigned(game, roles, game.players[i].id))]
                     IN  /\ games' = [games EXCEPT ![gameCode] =
                                        [game EXCEPT
                                           !.roles = roles,
                                           !.status = "playing",
                                           !.round = 1,
                                           !.readyStates =
                                              [i \in 1..Len(game.players) |->
                                                 [id |-> game.players[i].id,
                                                  ready |-> FALSE]]]]
                         /\ outbox' = Unguarded(sends, closedThrows)
                         /\ event' = Event("startGame", connectionId, NoData,
                                           Threw(sends, closedThrows))
  /\ UNCHANGED << connectionIdCounter, wsToConnectionId, playerConnections,
                  playerTokens, created >>

ReadyCount(readyStates) == Len(SelectSeq(readyStates, LAMBDA r : r.ready))

playerReady(connectionId) ==
  /\ event' = Event("playerReady", connectionId, NoData, FALSE)
  /\ IF ~HasGame(connectionId)
       THEN /\ outbox' = << >>
            /\ UNCHANGED games
     ELSE LET gameCode == playerConnections[connectionId]
              game == games[gameCode]
              \* game.readyStates || new Map(): the map of a room that has not
              \* started is a fresh one, which the room does not keep
              readyStates == MapSet(game.readyStates,
                                    [id |-> connectionId, ready |-> TRUE])
          IN  /\ games' = IF game.status = "playing"
                            THEN [games EXCEPT ![gameCode].readyStates = readyStates]
                            ELSE games
              /\ outbox' = broadcastToGame(games', gameCode,
                              [action |-> "readyUpdate",
                               readyCount |-> ReadyCount(readyStates),
                               totalPlayers |-> Len(game.players)])
  /\ UNCHANGED << connectionIdCounter, wsToConnectionId, playerConnections,
                  playerTokens, created >>

removePlayer(connectionId, data, closedThrows) ==
  LET reject(text) == /\ outbox' = << SendTo(connectionId, ErrorMsg(text)) >>
                      /\ event' = Event("removePlayer", connectionId, data, FALSE)
                      /\ UNCHANGED << games, playerConnections >>
  IN
  /\ IF ~HasGame(connectionId)
       THEN /\ outbox' = << >>
            /\ event' = Event("removePlayer", connectionId, data, FALSE)
            /\ UNCHANGED << games, playerConnections >>
     ELSE LET gameCode == playerConnections[connectionId]
              game == games[gameCode]
              targetId == data.targetId
          IN  IF game.host # connectionId THEN reject("Only host can remove players")
              ELSE IF ~MapHas(game.players, targetId) THEN reject("Player not found")
              ELSE LET notice == << SendTo(targetId,
                                      [action |-> "removedFromGame",
                                       message |-> "You were removed from the game by the host"]) >>
                   IN  /\ games' = [games EXCEPT ![gameCode].players =
                                       MapDelete(@, targetId)]
                       /\ playerConnections' = MapRemove(playerConnections, targetId)
                       /\ outbox' =
                            IF Threw(notice, closedThrows)
                              THEN notice
                              ELSE notice \o broadcastToGame(games', gameCode,
                                               [action |-> "playerListUpdate",
                                                players |-> getPlayerList(games', gameCode)])
                       /\ event' = Event("removePlayer", connectionId, data,
                                         Threw(notice, closedThrows))
  /\ UNCHANGED << connectionIdCounter, wsToConnectionId, playerTokens, created >>

\* the room with the record of the closed connection deleted
DropDisconnected(game, connectionId) ==
  [game EXCEPT !.players = MapDelete(@, connectionId)]

\* a disconnect that hands the room of a host that disconnects to the first
\* player that is still connected
MarkDisconnectedNewHost(game, connectionId) ==
  LET marked == [game EXCEPT !.players =
                   MapSet(@, [MapGet(game.players, connectionId)
                                EXCEPT !.connected = FALSE])]
      rest == SelectSeq(marked.players, LAMBDA p : p.connected)
  IN  IF game.host = connectionId /\ rest # << >>
        THEN [marked EXCEPT !.host = rest[1].id]
        ELSE marked

\* line 524: player.connected = false
MarkDisconnected(game, connectionId) ==
  [game EXCEPT !.players =
     MapSet(@, [MapGet(game.players, connectionId) EXCEPT !.connected = FALSE])]

\* a disconnect that ends the room of a host that disconnects
onPlayerDisconnectEndsRoom(connectionId) ==
  IF ~HasGame(connectionId)
    THEN /\ outbox' = << >>
         /\ UNCHANGED << games, playerConnections >>
  ELSE LET gameCode == playerConnections[connectionId]
           game == games[gameCode]
       IN  IF ~MapHas(game.players, connectionId)
             THEN /\ outbox' = << >>
                  /\ UNCHANGED << games, playerConnections >>
             ELSE LET player == MapGet(game.players, connectionId)
                  IN  /\ games' = IF game.host = connectionId
                                    THEN MapRemove(games, gameCode)
                                    ELSE [games EXCEPT ![gameCode] =
                                            MarkDisconnected(game, connectionId)]
                      /\ outbox' = broadcastToGame(games', gameCode,
                                      [action |-> "playerDisconnected",
                                       playerId |-> connectionId,
                                       playerName |-> player.name])
                      /\ UNCHANGED playerConnections

\* GameServer.onPlayerDisconnect
onPlayerDisconnect(connectionId) ==
  IF ~HasGame(connectionId)
    THEN /\ outbox' = << >>
         /\ UNCHANGED << games, playerConnections >>
  ELSE LET gameCode == playerConnections[connectionId]
           game == games[gameCode]
       IN  IF ~MapHas(game.players, connectionId)
             THEN /\ outbox' = << >>
                  /\ UNCHANGED << games, playerConnections >>
             ELSE LET player == MapGet(game.players, connectionId)
                  IN  /\ games' = [games EXCEPT ![gameCode] =
                                     MarkDisconnected(game, connectionId)]
                      /\ outbox' = broadcastToGame(games', gameCode,
                                      [action |-> "playerDisconnected",
                                       playerId |-> connectionId,
                                       playerName |-> player.name])
                      /\ UNCHANGED playerConnections

\* ws-server.js close
Close(connectionId) ==
  /\ event' = Event("close", connectionId, NoData, FALSE)
  /\ onPlayerDisconnect(connectionId)
  /\ wsToConnectionId' = wsToConnectionId \ { connectionId }
  /\ UNCHANGED << connectionIdCounter, playerTokens, created >>

\* no event is being handled: the server waits in the event loop
Idle == event.action = "none"

\* the handler has returned: the transport takes the sends and the server
\* waits for the next event
EventLoop ==
  /\ ~Idle
  /\ event' = NoEvent
  /\ outbox' = << >>
  /\ UNCHANGED << connectionIdCounter, wsToConnectionId, games, playerConnections,
                  playerTokens, created >>

\* the shuffle draws the model takes: every draw of a run is the same
\* Math.random value k / RandomGrain
ShuffleInputs(n) ==
  { [i \in 1..(n - 1) |-> (k * (i + 1)) \div RandomGrain] : k \in 0..(RandomGrain - 1) }

\* The step of a world w: the transport opens w.maxConn connections, clients
\* create w.maxCreated rooms, the client behind connection c types the names
\* w.names[c], and each kind of message comes from the connections the world
\* names for it.
NextOf(w) ==
  \/ Idle /\ connectionIdCounter <= w.maxConn /\ Open
  \/ Idle /\ created < w.maxCreated
          /\ \E c \in wsToConnectionId \cap w.creators :
               \E n \in NameInputs(w.names[c]), s \in SettingInputs :
                 createGame(c, [playerName |-> n, eyeWitness |-> s.eyeWitness,
                                bodyGuard |-> s.bodyGuard])
  \/ Idle /\ \E c \in wsToConnectionId :
               \E n \in NameInputs(w.names[c]), g \in CodeInputs :
                 joinGame(c, [playerName |-> n, gameCode |-> g])
  \/ Idle /\ \E c \in wsToConnectionId \cap w.starters, thr \in BOOLEAN :
               \E js \in ShuffleInputs(IF HasGame(c)
                                         THEN Len(games[playerConnections[c]].players)
                                         ELSE 1) :
                 startGame(c, js, thr)
  \/ Idle /\ \E c \in wsToConnectionId \cap w.readiers : playerReady(c)
  \/ Idle /\ \E c \in wsToConnectionId \cap w.leavers : leaveGame(c)
  \/ Idle /\ \E c \in wsToConnectionId \cap w.removers, t \in w.targets, thr \in BOOLEAN :
               removePlayer(c, [targetId |-> t], thr)
  \/ Idle /\ \E c \in wsToConnectionId \cap w.closers : Close(c)
  \/ EventLoop

\* two connections, every message from every connection, two rooms
SmallWorld ==
  [maxConn |-> MaxConn, maxCreated |-> MaxCreated, names |-> ClashingNames,
   creators |-> 1..MaxConn, starters |-> 1..MaxConn, readiers |-> 1..MaxConn,
   leavers |-> 1..MaxConn, removers |-> 1..MaxConn, targets |-> 0..MaxConn,
   closers |-> 1..MaxConn]

\* enough connections to start a game in the one room the first connection
\* creates; the first connections send the other messages
PlayWorld ==
  [maxConn |-> MaxPlayConn, maxCreated |-> 1, names |-> PlayerNames,
   creators |-> {1}, starters |-> 1..2, readiers |-> {3},
   leavers |-> 1..2, removers |-> 1..2, targets |-> 0..2,
   closers |-> 1..2]

\* five connections and one room, which its host starts; the host and one
\* member send playerReady, two members leave, the host removes the other two,
\* one of which disconnects
ReadyWorld ==
  [maxConn |-> MaxPlayConn, maxCreated |-> 1, names |-> PlayerNames,
   creators |-> {1}, starters |-> {1}, readiers |-> 1..2,
   leavers |-> 2..3, removers |-> {1}, targets |-> 4..MaxPlayConn,
   closers |-> {MaxPlayConn}]

Next == NextOf(SmallWorld)

NextPlay == NextOf(PlayWorld)

Spec == Init /\ [][Next]_vars

SpecPlay == Init /\ [][NextPlay]_vars

NextReady == NextOf(ReadyWorld)

SpecReady == Init /\ [][NextReady]_vars

\* ------------------------------------------------------------ assignRoles alone

AllSettings == [eyeWitness : BOOLEAN, bodyGuard : BOOLEAN]

\* a room of n players, created by connection 1 and joined by 2..n
RoomOf(n, settings) ==
  [code |-> CodeOf(<< 0, 0, 0, 0 >>),
   host |-> 1,
   hostToken |-> 0,
   players |-> [i \in 1..n |-> [id |-> i, name |-> trim(CHOOSE x \in PlayerNames[i] : TRUE),
                                isHost |-> i = 1, token |-> 0, connected |-> TRUE]],
   settings |-> settings,
   status |-> "lobby",
   roles |-> << >>,
   round |-> 0,
   readyStates |-> << >>]

InitRoles ==
  \E n \in 1..MaxRolePlayers, settings \in AllSettings :
    /\ connectionIdCounter = n + 1
    /\ wsToConnectionId = 1..n
    /\ games = MapPut(<< >>, CodeOf(<< 0, 0, 0, 0 >>), RoomOf(n, settings))
    /\ playerConnections = [c \in 1..n |-> CodeOf(<< 0, 0, 0, 0 >>)]
    /\ playerTokens = MapPut(<< >>, 0, [gameCode |-> CodeOf(<< 0, 0, 0, 0 >>),
                                        connectionId |-> n])
    /\ created = 1
    /\ event = NoEvent
    /\ outbox = << >>

\* lines 226-227: game.roles = this.assignRoles(gameCode), for every outcome of
\* the shuffle
ApplyAssignRoles ==
  /\ Idle
  /\ \E gameCode \in DOMAIN games :
       \E js \in ShuffleDraws(Len(games[gameCode].players)) :
         /\ games[gameCode].roles = << >>
         /\ games' = [games EXCEPT ![gameCode].roles = assignRoles(games[gameCode], js)]
         /\ event' = Event("assignRoles", 0, [gameCode |-> gameCode, js |-> js], FALSE)
  /\ outbox' = << >>
  /\ UNCHANGED << connectionIdCounter, wsToConnectionId, playerConnections,
                  playerTokens, created >>

NextRoles == ApplyAssignRoles \/ EventLoop

SpecRoles == InitRoles /\ [][NextRoles]_vars

\* ================================================================== claims

\* the step that handles a message (or a close) of the given action
Handles(action) == Idle /\ event'.action = action

\* the messages of the last step that were sent on connection c
SentTo(box, c) == { box[i].msg : i \in { k \in 1..Len(box) : box[k].to = c } }

HostRecords(game) ==
  { i \in 1..Len(game.players) : game.players[i].isHost }

EqualIgnoringCase(a, b) == toLowerCase(a) = toLowerCase(b)

\* C1: every room has exactly one player record with isHost = true, and that
\* record is stored under the room's host connection.  (The code breaks it:
\* the host can join its own room under another name, or remove itself.)
C1_OneHostRecord ==
  \A g \in DOMAIN games :
    /\ Cardinality(HostRecords(games[g])) = 1
    /\ \A i \in HostRecords(games[g]) : games[g].players[i].id = games[g].host

\* C2, first half: no two player records of a room have names that are equal
\* ignoring case.
NamesUnique ==
  \A g \in DOMAIN games :
    \A i, k \in 1..Len(games[g].players) :
      i # k => ~EqualIgnoringCase(games[g].players[i].name, games[g].players[k].name)

\* C2, second half: a joinGame whose trimmed name equals, ignoring case, the
\* name of a member of the room it names is answered by one error to the
\* caller and changes no room.
JoinClashRejected ==
  Handles("joinGame") =>
    \A playerName \in { trim(OrEmpty(event'.data.playerName)) },
       gameCode \in { trim(toUpperCase(OrEmpty(event'.data.gameCode))) } :
      ( /\ gameCode \in DOMAIN games
        /\ \E i \in 1..Len(games[gameCode].players) :
              EqualIgnoringCase(games[gameCode].players[i].name, playerName) )
      => /\ games' = games
         /\ playerConnections' = playerConnections
         /\ Len(outbox') = 1
         /\ outbox'[1].to = event'.connectionId
         /\ outbox'[1].msg.action = "error"

\* C2: in every reachable state the names of a room are unique ignoring case,
\* and every joinGame with a name that clashes, ignoring case, with a member of
\* the target room is rejected with an error and adds no player.
C2_UniqueNames == NamesUnique /\ [][NamesUnique' /\ JoinClashRejected]_vars

\* C2 witness: a joinGame was rejected for a name that differs from a
\* member's name in case only.
C2_Witness ==
  /\ event.action = "joinGame"
  /\ Len(outbox) = 1
  /\ outbox[1].msg = ErrorMsg("That name is already taken")
  /\ \E g \in DOMAIN games : \E i \in 1..Len(games[g].players) :
        /\ games[g].players[i].name # trim(OrEmpty(event.data.playerName))
        /\ EqualIgnoringCase(games[g].players[i].name,
                             trim(OrEmpty(event.data.playerName)))

\* C3, the created room: a createGame that succeeds announces a code of four
\* characters of the alphabet that no room had, and leaves every room that
\* existed as it was.
CreateTakesFreshCode ==
  (Handles("createGame") /\ games' # games) =>
    \A code \in { outbox'[1].msg.gameCode } :
      /\ Len(code) = CodeLength
      /\ \A i \in 1..Len(code) : \E k \in 1..Len(characters) : code[i] = characters[k]
      /\ code \notin DOMAIN games
      /\ DOMAIN games' = DOMAIN games \cup { code }
      /\ games'[code].code = code
      /\ \A g \in DOMAIN games : games'[g] = games[g]

\* C3, the store: every room is stored under its own code, so that two rooms
\* never have the same code.
CodesDistinct ==
  \A g, h \in DOMAIN games :
    /\ games[g].code = g
    /\ g # h => games[g].code # games[h].code

\* C3: the code of a createGame is 4 characters of the fixed alphabet and
\* differs from the code of every active room; createGame never overwrites a
\* room and active rooms have pairwise distinct codes.
C3_FreshCodes == CodesDistinct /\ [][CodesDistinct' /\ CreateTakesFreshCode]_vars

\* C3 witness: a room was created while another room was active.
C3_Witness ==
  /\ event.action = "createGame"
  /\ Len(outbox) = 1
  /\ outbox[1].msg.action = "gameCreated"
  /\ Cardinality(DOMAIN games) = 2

\* C4, one step of one room: a room appears in the lobby without roles; a
\* room in the lobby either stays there without roles or is started, by
\* startGame, with its roles assigned in that step; a started room stays
\* started and keeps the roles it has.
StatusAndRolesStep ==
  \A g \in DOMAIN games' :
    IF g \notin DOMAIN games
      THEN games'[g].status = "lobby" /\ games'[g].roles = << >>
    ELSE IF games[g].status = "lobby"
      THEN /\ games[g].roles = << >>
           /\ \/ games'[g].status = "lobby" /\ games'[g].roles = << >>
              \/ /\ games'[g].status = "playing"
                 /\ games'[g].roles # << >>
                 /\ event'.action = "startGame"
    ELSE /\ games[g].status = "playing"
         /\ games'[g].status = "playing"
         /\ games'[g].roles = games[g].roles

\* C4: the status of a room changes only from Lobby to Playing and never
\* back, and the roles of a room are assigned once, in the step of that
\* change; no later step assigns or alters them.
C4_StatusForward == [][StatusAndRolesStep]_vars

\* C4 witness: a started room, with its roles, has refused a second startGame.
C4_Witness ==
  /\ event.action = "startGame"
  /\ outbox = << SendTo(event.connectionId, ErrorMsg("Game is not in lobby state")) >>
  /\ \E g \in DOMAIN games :
        /\ games[g].status = "playing"
        /\ games[g].host = event.connectionId
        /\ Len(games[g].roles) >= MinPlayers

\* the three conditions under which startGame starts the caller's room
MayStart(connectionId) ==
  /\ HasGame(connectionId)
  /\ games[playerConnections[connectionId]].host = connectionId
  /\ games[playerConnections[connectionId]].status = "lobby"
  /\ Len(games[playerConnections[connectionId]].players) >= MinPlayers

StartIsGuarded ==
  (Handles("startGame") /\ ~MayStart(event'.connectionId)) =>
    /\ games' = games
    /\ playerConnections' = playerConnections
    /\ \A i \in 1..Len(outbox') :
          /\ outbox'[i].to = event'.connectionId
          /\ outbox'[i].msg.action = "error"

\* C5: startGame changes no room and sends nothing to the members of the
\* room (at most an error to its caller) unless the caller is the host of its
\* room, the room is in the lobby and has at least 5 players.
C5_StartGuarded == [][StartIsGuarded]_vars

\* C5 witness: the host of a lobby room of four players was refused.
C5_Witness ==
  /\ event.action = "startGame"
  /\ outbox = << SendTo(event.connectionId,
                        ErrorMsg("Need at least 5 players to start")) >>
  /\ \E g \in DOMAIN games :
        /\ games[g].host = event.connectionId
        /\ games[g].status = "lobby"
        /\ Len(games[g].players) = MinPlayers - 1

CountRole(roles, role) == Cardinality({ i \in 1..Len(roles) : roles[i].role = role })

\* the least k with SyndicateDivisor * k >= n
Third(n) == CHOOSE k \in 0..n : SyndicateDivisor * k >= n /\ \A m \in 0..(k - 1) : SyndicateDivisor * m < n

\* what C6 says of the roles assignRoles returned for a room of n players,
\* with the number of Detective roles left open
RolesAsClaimed(game, detectives) ==
  LET roles == game.roles
      n == Len(game.players)
      free == n - Third(n) - 1
  IN  /\ Len(roles) = n
      /\ \A i \in 1..n : \E k \in 1..n : roles[k].id = game.players[i].id
      /\ CountRole(roles, "Syndicate") = Third(n)
      /\ CountRole(roles, "Detective") = detectives
      /\ CountRole(roles, "Eye Witness") <= 1
      /\ CountRole(roles, "Eye Witness") = 1 => game.settings.eyeWitness /\ free >= 1
      /\ CountRole(roles, "Body Guard") <= 1
      /\ CountRole(roles, "Body Guard") = 1 =>
            game.settings.bodyGuard /\ free - CountRole(roles, "Eye Witness") >= 1
      /\ CountRole(roles, "Innocent Bystander") =
            n - Third(n) - detectives - CountRole(roles, "Eye Witness")
              - CountRole(roles, "Body Guard")

\* C6 as stated: for any player count n, assignRoles returns n roles, one per
\* player: ceil(n/3) Syndicate, exactly one Detective, at most one Eye Witness
\* and one Body Guard (only if enabled and a slot remains), the others
\* Innocent Bystander.  (A room of one player gets a Syndicate and no
\* Detective.)
C6_AsStated ==
  \A g \in DOMAIN games :
    event.action = "assignRoles" => RolesAsClaimed(games[g], 1)

\* C6 amended: the same, with exactly one Detective when n >= 2 and none when
\* n = 1.
C6_Roles ==
  \A g \in DOMAIN games :
    event.action = "assignRoles" =>
      RolesAsClaimed(games[g], IF Len(games[g].players) >= 2 THEN 1 ELSE 0)

\* C6 witness: the roles of five or more players with both settings on, after
\* a shuffle that moved the first player: both optional roles are there.
C6_Witness ==
  /\ event.action = "assignRoles"
  /\ \E g \in DOMAIN games :
        /\ Len(games[g].players) >= MinPlayers
        /\ games[g].roles[1].id # games[g].players[1].id
        /\ CountRole(games[g].roles, "Eye Witness") = 1
        /\ CountRole(games[g].roles, "Body Guard") = 1
        /\ CountRole(games[g].roles, "Innocent Bystander") >= 0

\* the room playerConnections resolves connection c to, before the step
RoomOfCaller(c) == games[playerConnections[c]]

HostLeftMsg == ErrorMsg("Host left the game. Game ended.")

\* C7, the lookup: a joinGame that names a code no room has is answered
\* "Game not found" and changes nothing.
UnknownCodeNotFound ==
  Handles("joinGame") =>
    \A playerName \in { trim(OrEmpty(event'.data.playerName)) },
       gameCode \in { trim(toUpperCase(OrEmpty(event'.data.gameCode))) } :
      (playerName # EmptyString /\ gameCode \notin DOMAIN games) =>
        /\ outbox' = << SendTo(event'.connectionId, ErrorMsg("Game not found")) >>
        /\ games' = games
        /\ playerConnections' = playerConnections

\* leaveGame of the host of the caller's room: the room leaves the store and
\* the members the predicate told selects are each sent the terminal error
HostLeaveEnds(told(_)) ==
  \A c \in { event'.connectionId } :
    (Handles("leaveGame") /\ HasGame(c) /\ RoomOfCaller(c).host = c) =>
      /\ playerConnections[c] \notin DOMAIN games'
      /\ \A g \in DOMAIN games' : games'[g] = games[g]
      /\ \A i \in 1..Len(RoomOfCaller(c).players) :
           LET p == RoomOfCaller(c).players[i]
           IN  (p.id # c /\ told(p)) => HostLeftMsg \in SentTo(outbox', p.id)

EveryMember(p) == TRUE

ConnectedMember(p) == p.connected

\* C7 as stated: when the host of a room issues leaveGame the room is removed
\* from the store, a later joinGame with its code fails with game-not-found,
\* and every other member of the room is sent 'Host left the game. Game
\* ended.'.  (A member that disconnected is sent nothing.)
C7_AsStated == [][HostLeaveEnds(EveryMember) /\ UnknownCodeNotFound]_vars

\* C7 amended: the same, for every other member whose connected flag is true.
C7_HostLeave == [][HostLeaveEnds(ConnectedMember) /\ UnknownCodeNotFound]_vars

\* C7 witness: the host has left, its room is gone, two or more members were
\* told, and a member that had disconnected was not.
C7_Witness ==
  /\ event.action = "leaveGame"
  /\ games = << >>
  /\ Len(outbox) >= 3
  /\ \A i \in 1..Len(outbox) : outbox[i].msg = HostLeftMsg
  /\ \E c \in DOMAIN playerConnections :
        c \notin wsToConnectionId /\ SentTo(outbox, c) = {}

\* a playerListUpdate whose roster has no entry of connection c
RosterWithout(msg, c) ==
  /\ msg.action = "playerListUpdate"
  /\ \A k \in 1..Len(msg.players) : msg.players[k].id # c

\* leaveGame of a member that is not the host of its room: the room loses
\* that record and nothing else, and the remaining members the predicate told
\* selects are each sent a roster without the leaver
MemberLeaveRemovesOne(told(_)) ==
  \A c \in { event'.connectionId } :
    ( /\ Handles("leaveGame")
      /\ HasGame(c)
      /\ MapHas(RoomOfCaller(c).players, c)
      /\ RoomOfCaller(c).host # c ) =>
      /\ games' = [games EXCEPT ![playerConnections[c]].players =
                     SelectSeq(@, LAMBDA p : p.id # c)]
      /\ Len(games'[playerConnections[c]].players) = Len(RoomOfCaller(c).players) - 1
      /\ \A i \in 1..Len(games'[playerConnections[c]].players) :
           LET p == games'[playerConnections[c]].players[i]
           IN  told(p) => \E msg \in SentTo(outbox', p.id) : RosterWithout(msg, c)

\* C8 as stated: a leaveGame of a non-host member removes exactly that
\* member's record, leaves the room, its host, its status and the other
\* records as they were, and all remaining members are sent a playerListUpdate
\* without the leaver.  (A remaining member that disconnected is sent nothing.)
C8_AsStated == [][MemberLeaveRemovesOne(EveryMember)]_vars

\* C8 amended: the same, for all remaining members whose connected flag is
\* true.
C8_MemberLeave == [][MemberLeaveRemovesOne(ConnectedMember)]_vars

\* C8 witness: a member has left a room that still has its host and three or
\* more players, one of them disconnected; the connected ones were told.
C8_Witness ==
  /\ event.action = "leaveGame"
  /\ \E g \in DOMAIN games :
        /\ ~MapHas(games[g].players, event.connectionId)
        /\ games[g].host # event.connectionId
        /\ Len(games[g].players) >= 3
        /\ \E i \in 1..Len(games[g].players) : ~games[g].players[i].connected
        /\ \A i \in 1..Len(games[g].players) :
              games[g].players[i].connected <=>
                \E msg \in SentTo(outbox, games[g].players[i].id) :
                   RosterWithout(msg, event.connectionId)

RemovedNotice ==
  [action |-> "removedFromGame",
   message |-> "You were removed from the game by the host"]

\* removePlayer of a caller that is in a room: the host removing a member
\* takes the member's record out, sends the notice on the member's
\* connection and sends every remaining connected member the shorter roster;
\* any other caller or target changes nothing and only the caller is sent an
\* error
RemoveAsClaimed ==
  \A c \in { event'.connectionId } :
    (Handles("removePlayer") /\ HasGame(c)) =>
      \A t \in { event'.data.targetId }, game \in { RoomOfCaller(c) } :
        IF game.host = c /\ MapHas(game.players, t)
          THEN /\ games' = [games EXCEPT ![playerConnections[c]].players =
                              SelectSeq(@, LAMBDA p : p.id # t)]
               /\ RemovedNotice \in SentTo(outbox', t)
               /\ \A i \in 1..Len(game.players) :
                    LET p == game.players[i]
                    IN  (p.id # t /\ p.connected) =>
                          \E msg \in SentTo(outbox', p.id) :
                            /\ RosterWithout(msg, t)
                            /\ Len(msg.players) = Len(game.players) - 1
          ELSE /\ games' = games
               /\ playerConnections' = playerConnections
               /\ Len(outbox') = 1
               /\ outbox'[1].to = c
               /\ outbox'[1].msg.action = "error"

\* C9: when the host issues removePlayer for a member of its room, the
\* member's record is removed, the member is sent removedFromGame and every
\* remaining (connected) member is sent a playerListUpdate with one entry
\* fewer and without the target; a removePlayer of a non-host caller, or for a
\* target that is not a member, removes nobody and sends an error only to the
\* caller.  (The notice to a target whose socket has closed is not guarded:
\* the handler ends there and no roster is sent.)
C9_RemovePlayer == [][RemoveAsClaimed]_vars

\* the player records of a room with the flag of connection c cleared
FlagCleared(players, c) ==
  [i \in 1..Len(players) |->
     IF players[i].id = c THEN [players[i] EXCEPT !.connected = FALSE]
                          ELSE players[i]]

\* a close of a member's connection clears the flag of its record and changes
\* nothing else of any room
DisconnectKeepsRecord ==
  \A c \in { event'.connectionId } :
    ( /\ Handles("close")
      /\ HasGame(c)
      /\ MapHas(RoomOfCaller(c).players, c) ) =>
      /\ games' = [games EXCEPT ![playerConnections[c]].players = FlagCleared(@, c)]
      /\ \E i \in 1..Len(games'[playerConnections[c]].players) :
           LET p == games'[playerConnections[c]].players[i]
           IN  p.id = c /\ ~p.connected

\* a record whose flag is cleared stays as it is while its room exists,
\* unless the step is a removePlayer that names it or a leaveGame of its own
DisconnectedStay ==
  \A g \in DOMAIN games \cap DOMAIN games' :
    \A i \in 1..Len(games[g].players) :
      LET p == games[g].players[i]
      IN  ~p.connected =>
            \/ \E k \in 1..Len(games'[g].players) : games'[g].players[k] = p
            \/ event'.action = "removePlayer" /\ event'.data.targetId = p.id
            \/ event'.action = "leaveGame" /\ event'.connectionId = p.id

\* the room a handler's roster is about
ActedRoom ==
  IF event'.action \in {"joinGame", "createGame"}
    THEN games'[playerConnections'[event'.connectionId]]
    ELSE games'[playerConnections[event'.connectionId]]

\* every roster a step sends lists each record of the room as it is after
\* the step, disconnected ones with their flag, and a readyUpdate counts them
RostersListAll ==
  \A i \in 1..Len(outbox') :
    LET msg == outbox'[i].msg
    IN  /\ msg.action \in {"playerListUpdate", "gameJoined", "gameCreated"} =>
             /\ Len(msg.players) = Len(ActedRoom.players)
             /\ \A k \in 1..Len(ActedRoom.players) :
                  /\ msg.players[k].id = ActedRoom.players[k].id
                  /\ msg.players[k].connected = ActedRoom.players[k].connected
        /\ msg.action = "readyUpdate" =>
             msg.totalPlayers = Len(ActedRoom.players)

\* C10: a transport disconnect of a room member keeps the member's record in
\* the room with connected = false and leaves the player count as it was;
\* every later roster (playerListUpdate, totalPlayers of readyUpdate) lists
\* and counts the disconnected player until a leaveGame or removePlayer takes
\* the record out.
C10_DisconnectKeeps ==
  [][DisconnectKeepsRecord /\ DisconnectedStay /\ RostersListAll]_vars

\* C10 witness: a roster sent after a disconnect lists the disconnected
\* player with connected = false.
C10_Witness ==
  \E i \in 1..Len(outbox) :
    /\ outbox[i].msg.action = "playerListUpdate"
    /\ \E k \in 1..Len(outbox[i].msg.players) :
          /\ ~outbox[i].msg.players[k].connected
          /\ outbox[i].msg.players[k].id \notin wsToConnectionId

\* the names of the players of the room, other than id, whose role is Syndicate
OtherSyndicateNames(game, id) ==
  { game.players[i].name : i \in { k \in 1..Len(game.players) :
        /\ game.players[k].id # id
        /\ RoleOf(game.roles, game.players[k].id) = "Syndicate" } }

\* the fields of a message that tell of roles
RoleFields == {"role", "roles", "description", "teammates"}

\* each roleAssigned of a start carries the role of its receiver; the
\* teammates of a Syndicate receiver are the other Syndicate players' names,
\* each once; those of any other receiver are none, and nothing else in the
\* message depends on who is Syndicate
RoleAssignedPrivate ==
  \A c \in { event'.connectionId } :
    (Handles("startGame") /\ HasGame(c)
       /\ StartChecks(RoomOfCaller(c), c) = "ok") =>
      \A game \in { games'[playerConnections[c]] } :
        \A i \in 1..Len(outbox') :
          LET msg == outbox'[i].msg
              id == outbox'[i].to
              role == RoleOf(game.roles, id)
          IN  /\ msg.action = "roleAssigned"
              /\ MapHas(game.players, id)
              /\ msg.role = role
              /\ role = "Syndicate" =>
                   /\ { msg.teammates[k] : k \in 1..Len(msg.teammates) }
                        = OtherSyndicateNames(game, id)
                   /\ Len(msg.teammates) = Cardinality(OtherSyndicateNames(game, id))
              /\ role # "Syndicate" =>
                   msg = [action |-> "roleAssigned", role |-> role,
                          description |-> RoleTitle(role), teammates |-> << >>,
                          playerCount |-> Len(game.players), readyCount |-> 0,
                          totalPlayers |-> Len(game.players)]

\* no message of any other handler has a field that tells of roles
OnlyStartTellsRoles ==
  \A i \in 1..Len(outbox') :
    outbox'[i].msg.action # "roleAssigned" =>
      /\ DOMAIN outbox'[i].msg \cap RoleFields = {}
      /\ "players" \in DOMAIN outbox'[i].msg =>
           \A k \in 1..Len(outbox'[i].msg.players) :
              DOMAIN outbox'[i].msg.players[k] \cap RoleFields = {}

\* C11: in the roleAssigned messages of a successful startGame a player whose
\* role is not Syndicate gets an empty teammates list, a Syndicate player gets
\* exactly the names of the other Syndicate players of the room, and no
\* message sent to a non-Syndicate player tells which players are Syndicate.
C11_TeammatesPrivate == [][RoleAssignedPrivate /\ OnlyStartTellsRoles]_vars

\* C11 witness: a start has sent a Syndicate player a teammate's name and a
\* player of another role an empty list.
C11_Witness ==
  /\ event.action = "startGame"
  /\ \E i, k \in 1..Len(outbox) :
        /\ outbox[i].msg.action = "roleAssigned"
        /\ outbox[i].msg.role = "Syndicate"
        /\ Len(outbox[i].msg.teammates) = 1
        /\ outbox[k].msg.action = "roleAssigned"
        /\ outbox[k].msg.role = "Detective"
        /\ outbox[k].msg.teammates = << >>

\* the texts of the validation errors a message of the step's kind can get
ValidationTexts ==
  [createGame   |-> {"Player name is required"},
   joinGame     |-> {"Player name is required", "Game not found",
                     "Game has already started", "That name is already taken"},
   startGame    |-> {"Only the host can start the game", "Game is not in lobby state",
                     "Need at least 5 players to start"},
   removePlayer |-> {"Only host can remove players", "Player not found"}]

\* the message of the step fails a validation, judged on the state before it
ValidationFails ==
  \A c \in { event'.connectionId } :
    \/ /\ event'.action \in {"createGame", "joinGame"}
       /\ trim(OrEmpty(event'.data.playerName)) = EmptyString
    \/ /\ event'.action = "joinGame"
       /\ \A gameCode \in { trim(toUpperCase(OrEmpty(event'.data.gameCode))) } :
            \/ gameCode \notin DOMAIN games
            \/ games[gameCode].status # "lobby"
            \/ \E i \in 1..Len(games[gameCode].players) :
                 EqualIgnoringCase(games[gameCode].players[i].name,
                                   trim(OrEmpty(event'.data.playerName)))
    \/ /\ event'.action = "startGame"
       /\ HasGame(c)
       /\ \/ RoomOfCaller(c).host # c
          \/ RoomOfCaller(c).status # "lobby"
          \/ Len(RoomOfCaller(c).players) < MinPlayers
    \/ /\ event'.action = "removePlayer"
       /\ HasGame(c)
       /\ \/ RoomOfCaller(c).host # c
          \/ \A i \in 1..Len(RoomOfCaller(c).players) :
               RoomOfCaller(c).players[i].id # event'.data.targetId

\* a step whose message fails a validation sends one error of its kind, on
\* the connection the message came from, and leaves the rooms and the
\* connection map as they were
ValidationErrorStep ==
  (Idle /\ ~(event'.action = "none") /\ ValidationFails) =>
    /\ Len(outbox') = 1
    /\ outbox'[1].to = event'.connectionId
    /\ outbox'[1].msg.action = "error"
    /\ outbox'[1].msg.message \in ValidationTexts[event'.action]
    /\ games' = games
    /\ playerConnections' = playerConnections

\* C12: every validation failure (empty name, game not found, game already
\* started, name already taken, not host, not in lobby, too few players,
\* target not found) produces an error message sent to the originating
\* connection and to no other, and leaves all rooms and the
\* connection-to-room map unchanged.
C12_ErrorsToCaller == [][ValidationErrorStep]_vars

\* C12 witness: a member of a started room of five, not its host, was refused
\* a start while other members were connected.
C12_Witness ==
  /\ event.action = "startGame"
  /\ outbox = << SendTo(event.connectionId, ErrorMsg("Only the host can start the game")) >>
  /\ HasGame(event.connectionId)
  /\ games[playerConnections[event.connectionId]].status = "playing"
  /\ \E c \in wsToConnectionId \ { event.connectionId } :
        MapHas(games[playerConnections[event.connectionId]].players, c)

\* a room the step takes out of the store was the room of the connection
\* whose leaveGame the step handles, and that connection was its host; every
\* room the step keeps has the code and the host it had
OnlyHostLeaveDeletes ==
  /\ \A g \in DOMAIN games \ DOMAIN games' :
        /\ Handles("leaveGame")
        /\ games[g].host = event'.connectionId
        /\ HasGame(event'.connectionId)
        /\ playerConnections[event'.connectionId] = g
  /\ \A g \in DOMAIN games \cap DOMAIN games' :
        /\ games'[g].code = games[g].code
        /\ games'[g].host = games[g].host
        /\ games'[g].hostToken = games[g].hostToken

\* C13: a room is removed from the store only by a leaveGame of the room's
\* host connection; no disconnect, removePlayer, non-host leaveGame,
\* startGame, playerReady, joinGame or createGame deletes an existing room.
C13_OnlyHostDeletes == [][OnlyHostLeaveDeletes]_vars

\* C13 witness: two rooms were created and the leaveGame of a host has taken
\* one of them out of the store; the other is still there.
C13_Witness ==
  /\ event.action = "leaveGame"
  /\ created = 2
  /\ Cardinality(DOMAIN games) = 1
  /\ \E i \in 1..Len(outbox) : outbox[i].msg = HostLeftMsg

\* a name that is missing, empty or made of white space only
BlankName(name) ==
  \/ name = Undefined
  \/ \A i \in 1..Len(name) : name[i] \in WhiteSpace

\* a createGame with a blank name sends the caller one error and leaves the
\* three maps as they were
BlankCreateRejected ==
  (Handles("createGame") /\ BlankName(event'.data.playerName)) =>
    /\ outbox' = << SendTo(event'.connectionId, ErrorMsg("Player name is required")) >>
    /\ games' = games
    /\ playerConnections' = playerConnections
    /\ playerTokens' = playerTokens
    /\ created' = created

\* C14: createGame with a missing, empty or whitespace-only player name sends
\* an error to the caller and creates no room: the room store, the
\* connection-to-room map and the token map are unchanged.
C14_BlankCreate == [][BlankCreateRejected]_vars

\* C14 witness: a createGame with a name of white space only was refused
\* while a room of another name existed.
C14_Witness ==
  /\ event.action = "createGame"
  /\ event.data.playerName = << " ", " " >>
  /\ outbox = << SendTo(event.connectionId, ErrorMsg("Player name is required")) >>
  /\ created = 1
  /\ DOMAIN games # {}
  /\ DOMAIN playerTokens # {}

\* the sends of the step that its broadcast made: all of them but the answer
\* joinGame sends the caller and the notice removePlayer sends the target
BroadcastPart ==
  IF event'.action \in {"joinGame", "removePlayer"} /\ Len(outbox') >= 1
    THEN Tail(outbox')
    ELSE outbox'

\* the player records of the room as the broadcast of the step found them
BroadcastPlayers ==
  LET c == event'.connectionId IN
    IF event'.action = "joinGame"
      THEN games'[playerConnections'[c]].players
    ELSE IF playerConnections[c] \in DOMAIN games'
      THEN games'[playerConnections[c]].players
      ELSE RoomOfCaller(c).players

\* the step is one whose handler reaches a broadcast
Broadcasts ==
  \A c \in { event'.connectionId } :
    /\ Idle
    /\ \/ event'.action = "joinGame" /\ Len(outbox') >= 1
                                      /\ outbox'[1].msg.action = "gameJoined"
       \/ /\ event'.action \in {"leaveGame", "close"}
          /\ HasGame(c)
          /\ MapHas(RoomOfCaller(c).players, c)
       \/ event'.action = "playerReady" /\ HasGame(c)
       \/ /\ event'.action = "removePlayer"
          /\ Len(outbox') >= 1
          /\ outbox'[1].msg.action = "removedFromGame"
          /\ ~event'.threw

\* the broadcast of a step makes one send, of one and the same message, on
\* the connection of each player whose connected flag is true and on no
\* other, whether or not some of the sends fail; the handler is not ended
\* by it
BroadcastReachesAll ==
  Broadcasts =>
    \A part \in { BroadcastPart }, players \in { BroadcastPlayers } :
      /\ \A i \in 1..Len(players) :
           Cardinality({ k \in 1..Len(part) : part[k].to = players[i].id })
             = IF players[i].connected THEN 1 ELSE 0
      /\ \A k \in 1..Len(part) :
           /\ \E i \in 1..Len(players) : players[i].id = part[k].to
           /\ part[k].msg = part[1].msg
      /\ ~event'.threw

\* C15: broadcastToGame attempts delivery exactly once to every player of the
\* room whose connected flag is true; a send that fails for one recipient
\* neither prevents the attempt to any other recipient nor aborts the
\* operation that issued the broadcast.
C15_BroadcastIsolated == [][BroadcastReachesAll]_vars

\* C15 witness: a broadcast whose send to one recipient failed (the socket
\* had closed while the record's flag was still true) went on to a later
\* recipient.
C15_Witness ==
  /\ ~event.threw
  /\ \E i, k \in 1..Len(outbox) :
        /\ i < k
        /\ ~outbox[i].ok
        /\ outbox[k].ok
        /\ outbox[i].msg = outbox[k].msg

\* a room the step keeps has the host it had
HostFieldKept ==
  \A g \in DOMAIN games \cap DOMAIN games' : games'[g].host = games[g].host

\* a connection that has closed stays closed, and a Lobby room whose host
\* connection has closed is, while it exists, a Lobby room after the step
HostlessLobbyStays ==
  \A g \in DOMAIN games :
    (games[g].status = "lobby" /\ games[g].host \notin wsToConnectionId) =>
      /\ games[g].host \notin wsToConnectionId'
      /\ g \in DOMAIN games' => games'[g].status = "lobby"

\* C16: the host field of a room never changes after createGame, also when
\* the host disconnects; once the host of a Lobby room has disconnected the
\* room never becomes Playing, whatever the other connections send.
C16_HostFixed == [][HostFieldKept /\ HostlessLobbyStays]_vars

\* C16 witness: the host of a Lobby room of five has disconnected and a
\* connected member's startGame was refused.
C16_Witness ==
  /\ event.action = "startGame"
  /\ HasGame(event.connectionId)
  /\ \E game \in { games[playerConnections[event.connectionId]] } :
        /\ game.status = "lobby"
        /\ Len(game.players) >= MinPlayers
        /\ game.host \notin wsToConnectionId
        /\ MapHas(game.players, game.host)
        /\ ~MapGet(game.players, game.host).connected
  /\ outbox = << SendTo(event.connectionId, ErrorMsg("Only the host can start the game")) >>

\* the players of the room that its stored ready state marks ready
ReadyPlayers(game) ==
  { i \in 1..Len(game.players) :
      /\ MapHas(game.readyStates, game.players[i].id)
      /\ MapGet(game.readyStates, game.players[i].id).ready }

\* what C17 says of a playerReady step
ReadyAsClaimed ==
  \A c \in { event'.connectionId } :
    Handles("playerReady") =>
      IF HasGame(c) /\ MapHas(RoomOfCaller(c).players, c)
        THEN \A g \in { playerConnections[c] } :
               /\ g \in DOMAIN games'
               /\ MapHas(games'[g].readyStates, c)
               /\ MapGet(games'[g].readyStates, c).ready
               /\ \A i \in 1..Len(games'[g].players) :
                    games'[g].players[i].connected =>
                      SentTo(outbox', games'[g].players[i].id) =
                        { [action |-> "readyUpdate",
                           readyCount |-> Cardinality(ReadyPlayers(games'[g])),
                           totalPlayers |-> Len(games'[g].players)] }
               /\ ( MapHas(games[g].readyStates, c)
                    /\ MapGet(games[g].readyStates, c).ready ) =>
                      Cardinality(ReadyPlayers(games'[g]))
                        = Cardinality(ReadyPlayers(games[g]))
        ELSE /\ games' = games
             /\ outbox' = << >>

\* C17: playerReady by a member of a room marks the member ready in the
\* room's stored ready state and broadcasts a readyUpdate whose readyCount is
\* the number of players of the room marked ready so far and whose
\* totalPlayers is the room's player count; a repeated playerReady of the
\* same member leaves readyCount as it was; a playerReady of a connection with
\* no room, or with no player record in the room, changes nothing and sends
\* nothing.  (A room that has not started has no stored ready state: the map
\* playerReady fills is dropped; and the handler never looks for the
\* caller's record.)
C17_PlayerReady == [][ReadyAsClaimed]_vars

\* C18: in every reachable state a connection is mapped to code g if and only
\* if room g exists and holds a player record of the connection, so a
\* connection is a member of at most one room and no mapping outlives its
\* room.  (The leaveGame of a host leaves the mappings of the other members
\* behind, and a createGame or joinGame of a connection that is in a room
\* leaves its record in that room.)
C18_MapMatchesRooms ==
  /\ \A c \in DOMAIN playerConnections :
        /\ playerConnections[c] \in DOMAIN games
        /\ MapHas(games[playerConnections[c]].players, c)
  /\ \A g \in DOMAIN games :
        \A i \in 1..Len(games[g].players) :
           /\ games[g].players[i].id \in DOMAIN playerConnections
           /\ playerConnections[games[g].players[i].id] = g

\* the player records, before the step, of the room the handler acts on
ActedPlayersBefore ==
  LET c == event'.connectionId
      gameCode == trim(toUpperCase(OrEmpty(event'.data.gameCode)))
  IN  IF event'.action = "joinGame"
        THEN IF gameCode \in DOMAIN games THEN games[gameCode].players ELSE << >>
      ELSE IF event'.action \in {"startGame", "playerReady", "leaveGame",
                                 "removePlayer", "close"} /\ HasGame(c)
        THEN RoomOfCaller(c).players
        ELSE << >>

\* no send of the step is made on the connection of a player of that room
\* whose connected flag was false
NoSendToDisconnected ==
  Idle =>
    \A players \in { ActedPlayersBefore } :
      \A i \in 1..Len(outbox') :
        \A k \in 1..Len(players) :
          players[k].id = outbox'[i].to => players[k].connected

\* C19: no message is ever sent on the connection of a player whose
\* connected flag is false, on any send path: the broadcasts, the roleAssigned
\* unicasts of startGame and the removedFromGame notice of removePlayer.
\* (The two unicast paths test player.connection only, not the flag.)
C19_NoSendToDisconnected == [][NoSendToDisconnected]_vars

\* C20: every readyUpdate that is broadcast has 0 <= readyCount <=
\* totalPlayers, whatever the interleaving of playerReady with the leaveGame
\* and removePlayer of other members of a Playing room.  (leaveGame and
\* removePlayer delete the player record and leave its entry in readyStates,
\* which readyCount goes on counting.)
C20_ReadyCountBounded ==
  [][\A i \in 1..Len(outbox') :
       outbox'[i].msg.action = "readyUpdate" =>
         /\ 0 <= outbox'[i].msg.readyCount
         /\ outbox'[i].msg.readyCount <= outbox'[i].msg.totalPlayers]_vars

====
